---- MODULE Spec2Model ----
(***************************************************************************)
(* RANSAC.fit of sklearn/linear_model/ransac.py as a state machine.        *)
(*                                                                         *)
(* Under Spec one behaviour is one fit call on a freshly constructed       *)
(* RANSAC object with the default random_state; under SpecCalls it is a    *)
(* sequence of fit, predict and score calls on one object.  The object's   *)
(* constructor parameters are the record self; the locals of fit are       *)
(* variables of their own, named as in the source.  One loop iteration     *)
(* (lines 168-223) is one step.                                            *)
(*                                                                         *)
(* The collaborators are opaque: the random draw, the answers of the two   *)
(* validity predicates, the residuals of the delegate's prediction, the    *)
(* delegate's score and whether a delegate call raises are inputs of the   *)
(* step, drawn from small sets.  Residuals are finite numbers, scores are  *)
(* finite numbers or +infinity (Inf); NaN is not in the sets.              *)
(*                                                                         *)
(* An optional value (None, an unbound local, an unset attribute) is a     *)
(* sequence of length 0, a present value v is <<v>>.                       *)
(***************************************************************************)
EXTENDS Integers, Sequences, FiniteSets

\* ---------------------------------------------------------------- bounds
MaxRows == 2
MaxTrials == 2
\* fit calls on one object
MaxCalls == 2

\* np.inf: larger than every finite value of the model
Inf == 1000

None == << >>
Some(v) == << v >>

\* ------------------------------------------------------------ input sets
\* X has at least two rows: a one-row operand would broadcast at line 188
XRowCounts == 2..MaxRows
YRowCounts == 1..(MaxRows + 1)
DtypeKinds == {"f", "i"}
\* what the delegate's score returns: two finite values and +infinity
Scores == {0, 1, Inf}
\* the absolute residuals of a row: below the finite threshold or not
Residuals == {0, 1}
\* min_n_samples as a fraction num/den: -1, 0, 2/3, 1
MinNSamplesValues ==
  { [num |-> 0 - 1, den |-> 1], [num |-> 0, den |-> 1],
    [num |-> 2, den |-> 3], [num |-> 1, den |-> 1] }

\* the constructor's parameters, lines 107-121
Configs ==
  [ base_estimator     : {None, Some(1)},
    min_n_samples      : MinNSamplesValues,
    residual_threshold : {1, Inf},
    is_data_valid      : {None, Some("callable")},
    is_model_valid     : {None, Some("callable")},
    max_trials         : 0..MaxTrials,
    stop_n_inliers     : {0, MaxRows, Inf},
    stop_score         : {1, Inf},
    random_state       : {None} ]

\* the objects whose calls are followed over several fit calls: without a
\* seed, and with the seed 0 and a data gate
CallConfigs ==
  [ base_estimator     : {None, Some(1)},
    min_n_samples      : {[num |-> 0, den |-> 1], [num |-> 1, den |-> 1]},
    residual_threshold : {1},
    is_data_valid      : {None},
    is_model_valid     : {None},
    max_trials         : {MaxTrials},
    stop_n_inliers     : {0},
    stop_score         : {Inf},
    random_state       : {None} ]
  \cup
  [ base_estimator     : {Some(1)},
    min_n_samples      : {[num |-> 1, den |-> 1]},
    residual_threshold : {1},
    is_data_valid      : {Some("callable")},
    is_model_valid     : {None},
    max_trials         : {MaxTrials},
    stop_n_inliers     : {MaxRows},
    stop_score         : {1},
    random_state       : {Some(0)} ]

VARIABLES
  self,                 \* the constructor parameters
  estimator_,           \* fitted attribute: the delegate object, or unset
  n_trials_,            \* fitted attribute
  inlier_mask_,         \* fitted attribute
  objs,                 \* the estimator objects: objs[id] is what object id
                        \* was last fitted on (None: never fitted)
  pc,                   \* "idle", "loop", "break", "done"
  raised,               \* the exception the fit call ended with, or None
  X_rows, y_rows,       \* row counts of the arguments X and y
  y_kind,               \* y.dtype.kind, once line 140 has read it
  base_estimator,       \* local: id of the delegate object
  min_n_samples,        \* local: resolved sample size
  random_state,         \* local: the generator, its seed and draws made
  it,                   \* iterations of the for loop started so far
  n_trials,             \* the loop variable (unbound before the loop)
  best_n_inliers, best_score, best_inlier_mask, best_inlier_X, best_inlier_y,
  rsample_inlier_mask,  \* local of the last iteration that set it
  rsample_score,        \* local of the last iteration that set it
  hist,                 \* what the call has done so far (not program state)
  session,              \* the calls made on the object so far (not
                        \* program state)
  log                   \* the first fit call of a seeded object on the
                        \* data at hand, trial by trial (not program state)

vars ==
  << self, estimator_, n_trials_, inlier_mask_, objs, pc, raised, X_rows,
     y_rows, y_kind, base_estimator, min_n_samples, random_state, it,
     n_trials, best_n_inliers, best_score, best_inlier_mask, best_inlier_X,
     best_inlier_y, rsample_inlier_mask, rsample_score, hist, session, log >>

BestState ==
  << best_n_inliers, best_score, best_inlier_mask, best_inlier_X,
     best_inlier_y >>

fitted == << estimator_, n_trials_, inlier_mask_ >>

\* ------------------------------------------------------------- helpers
n_samples == X_rows

SetMin(S) == CHOOSE x \in S : \A z \in S : x <= z

\* sample_idxs[mask]: the selected row indices in increasing order
RECURSIVE InlierIdxs(_)
InlierIdxs(mask) ==
  IF mask = {} THEN << >>
  ELSE << SetMin(mask) >> \o InlierIdxs(mask \ {SetMin(mask)})

\* faulty variant of Ceil: rounded down
Floor(num, den, n) == (num * n) \div den

\* np.ceil(num / den * n) for den > 0
Ceil(num, den, n) == (num * n + den - 1) \div den

\* what an estimator object was last fitted on
OnSample(trial) == Some([data |-> "rsample", of |-> trial])
OnRows(idxs) == Some([data |-> "inliers", of |-> idxs])

\* randint, gate_calls, stop_checks: calls of the random source, of the two
\* validity predicates, evaluations of the stop condition (line 221);
\* data_valid_true: is_data_valid has answered true; accepted: iterations
\* that reached line 214; replaced: the count and score the last of them
\* overwrote; last: how the last iteration ended; top: the largest inlier
\* count any iteration has found at line 192, with the largest score line
\* 204 has returned for that count; draw: the last index array drawn from
\* a seeded generator; differs: an iteration of this call drew another
\* array than the same iteration of the logged call, or had none to match
NoHist ==
  [ randint |-> 0, gate_calls |-> 0, data_valid_true |-> FALSE,
    stop_checks |-> 0, accepted |-> 0, replaced |-> None, last |-> "none",
    top |-> None, draw |-> None, differs |-> FALSE ]

\* calls: fit calls that have returned; succeeded: one of them without an
\* error; model: the delegate of the last of those and what its final fit
\* was on; answer: what the last predict or score call since gave
NoSession ==
  [ calls |-> 0, succeeded |-> FALSE, model |-> None, answer |-> None ]

\* data: the arguments of the logged call; trials: the array drawn and the
\* outcome of each of its iterations; ended: how it ended; closed: a call
\* with other arguments has followed, and nothing is logged any more
NoLog ==
  [ data |-> None, trials |-> << >>, ended |-> None, closed |-> FALSE ]

Larger(a, b) == IF a >= b THEN a ELSE b

\* the history after an iteration has found n inliers and the score
\* scored (None: the iteration did not get to line 204)
Seen(h, n, scored) ==
  [h EXCEPT !.top =
     IF @ = None \/ n > @[1].n THEN Some([n |-> n, score |-> scored])
     ELSE IF n < @[1].n \/ scored = None THEN @
     ELSE IF @[1].score = None THEN Some([n |-> n, score |-> scored])
     ELSE Some([n |-> n, score |-> Some(Larger(@[1].score[1], scored[1]))])]

\* the state after the constructor, lines 107-121
Constructed(configs) ==
  /\ self \in configs
  /\ estimator_ = None /\ n_trials_ = None /\ inlier_mask_ = None
  /\ objs = IF self.base_estimator = None THEN << >> ELSE << None >>
  /\ pc = "idle"
  /\ raised = None
  /\ X_rows = None /\ y_rows = None /\ y_kind = None
  /\ base_estimator = None
  /\ min_n_samples = None
  /\ random_state = None
  /\ it = 0
  /\ n_trials = None
  /\ best_n_inliers = None /\ best_score = None
  /\ best_inlier_mask = None /\ best_inlier_X = None /\ best_inlier_y = None
  /\ rsample_inlier_mask = None /\ rsample_score = None
  /\ hist = NoHist
  /\ session = NoSession
  /\ log = NoLog

Init == Constructed(Configs)

InitCalls == Constructed(CallConfigs)

\* ------------------------------------------------------------ fit: entry
\* line 145
IsFraction(m) == 0 < m.num /\ m.num < m.den

\* line 147
IsAbsolute(m) == m.num >= m.den

\* lines 146 and 148 (an absolute value of the model is a whole number)
ResolveMinNSamples(m, n) ==
  IF IsFraction(m) THEN Ceil(m.num, m.den, n) ELSE m.num \div m.den

\* clone: a copy of an estimator's parameters, a new object that has never
\* been fitted whatever the estimator was fitted on
Clone(estimator) == None

\* faulty variant of NewDelegate: the configured prototype used as it is
\* when there is one
NoClone ==
  IF self.base_estimator = None
  THEN [objs |-> Append(objs, None), id |-> Len(objs) + 1]
  ELSE [objs |-> objs, id |-> 1]

\* lines 138-143: the delegate is a new object, a clone of the configured
\* prototype (the object 1) or a new LinearRegression.
\* objs: the estimator objects with it, id: its id
NewDelegate ==
  [ objs |-> Append(objs, IF self.base_estimator = None THEN None
                          ELSE Clone(objs[1])),
    id |-> Len(objs) + 1 ]

\* line 153: an integer seed gives a new generator in the state the seed
\* fixes, no seed gives the generator all of numpy shares; drawn counts
\* the draws made from a seeded generator
CheckRandomState(seed) == [seed |-> seed, drawn |-> 0]

\* lines 145-166: min_n_samples, the generator, the empty best, the loop
\* entered; delegate is the new delegate
ResolveAndEnter(xr, delegate) ==
  /\ objs' = delegate.objs
  /\ base_estimator' = Some(delegate.id)
  /\ IF IsFraction(self.min_n_samples) \/ IsAbsolute(self.min_n_samples)
     THEN /\ min_n_samples' =
               Some(ResolveMinNSamples(self.min_n_samples, xr))
          /\ random_state' = Some(CheckRandomState(self.random_state))
          /\ best_n_inliers' = 0
          /\ best_score' = Inf
          /\ best_inlier_mask' = None
          /\ best_inlier_X' = None
          /\ best_inlier_y' = None
          /\ it' = 0
          /\ pc' = "loop"
          /\ raised' = None
     ELSE /\ pc' = "done"
          /\ raised' = Some("ValueError: min_n_samples must be positive")
          /\ UNCHANGED << min_n_samples, random_state, it, BestState >>

\* the log of a seeded object is of its first fit call; it is compared
\* with the calls on the same data that follow, up to the first call on
\* other data
LogFor(data) ==
  IF self.random_state = None \/ log.closed \/ log.data = Some(data)
  THEN log
  ELSE IF log.data = None THEN [log EXCEPT !.data = Some(data)]
  ELSE [NoLog EXCEPT !.closed = TRUE]

\* lines 138-166: everything before the loop.  y_kind is y.dtype.kind as
\* line 140 reads it, and is not read when a base estimator is configured.
FitBegin ==
  /\ pc = "idle"
  /\ session.calls < MaxCalls
  /\ \E xr \in XRowCounts, yr \in YRowCounts :
       /\ X_rows' = xr
       /\ y_rows' = yr
       /\ IF self.base_estimator # None
          THEN /\ y_kind' = None
               /\ ResolveAndEnter(xr, NewDelegate)
          ELSE \E kind \in DtypeKinds :
                 /\ y_kind' = Some(kind)
                 /\ IF kind = "f"
                    THEN ResolveAndEnter(xr, NewDelegate)
                    ELSE /\ pc' = "done"
                         /\ raised' =
                              Some("ValueError: base_estimator not specified")
                         /\ UNCHANGED << objs, base_estimator,
                                         min_n_samples, random_state, it,
                                         BestState >>
       /\ log' = LogFor(<< xr, yr, y_kind' >>)
  /\ session' = [session EXCEPT !.answer = None]
  /\ UNCHANGED << self, fitted, n_trials, rsample_inlier_mask,
                  rsample_score, hist >>

\* ------------------------------------------------------- fit: one trial
\* an iteration of lines 168-223 ends here: by continue or by falling off
\* the body (npc = "loop"), by break (npc = "break") or by an exception
\* that leaves fit (npc = "done").  fitted_on is the delegate's state, best the five
\* best_* locals, h the history.
TrialEnds(npc, exc, fitted_on, rmask, rscore, best, h) ==
  /\ n_trials' = Some(it)
  /\ it' = it + 1
  /\ pc' = npc
  /\ raised' = exc
  /\ objs' = [objs EXCEPT ![base_estimator[1]] = fitted_on]
  /\ rsample_inlier_mask' = rmask
  /\ rsample_score' = rscore
  /\ best_n_inliers' = best[1]
  /\ best_score' = best[2]
  /\ best_inlier_mask' = best[3]
  /\ best_inlier_X' = best[4]
  /\ best_inlier_y' = best[5]
  /\ hist' = h

Ended(h, how) == [h EXCEPT !.last = how]

\* faulty variant of Continue: break written for continue
ContinueAsBreak == "break"

\* lines 177, 185, 196, 211: continue goes back to the for statement
Continue == "loop"

\* faulty variant of Raise: the exception swallowed, the trial skipped
RaiseAsContinue == "loop"

\* lines 168-223 have no try statement: an exception raised in the body
\* leaves the loop and fit
Raise == "done"

\* line 176, the second operand
SkipOnData(data_valid) == ~data_valid

\* lines 183-184, the second operand
SkipOnModel(model_valid) == ~model_valid

\* faulty variant of InlierMask: a fixed threshold of 1
InlierMaskUnit(residuals) ==
  {i \in DOMAIN residuals : residuals[i] < 1}

\* line 191
InlierMask(residuals) ==
  {i \in DOMAIN residuals : residuals[i] < self.residual_threshold}

\* line 192
NInliers(mask) == Cardinality(mask)

\* faulty variant of FewerInliers: <= for <
NotMoreInliers(n) == n <= best_n_inliers

\* faulty variant of FewerInliers: the early reject of lines 195-196 left out
NoEarlyReject(n) == FALSE

\* line 195
FewerInliers(n) == n < best_n_inliers

\* faulty variant of SameButWorse: the score not compared
SameCount(n, score) == n = best_n_inliers

\* faulty variant of SameButWorse: <= for <
SameAndNotBetter(n, score) == n = best_n_inliers /\ score <= best_score

\* lines 209-210
SameButWorse(n, score) == n = best_n_inliers /\ score < best_score

\* faulty variant of StopReached: and for or
StopNeedsBoth(n, score) ==
  n >= self.stop_n_inliers /\ score >= self.stop_score

\* faulty variant of StopReached: the inlier count not tested
StopOnScoreOnly(n, score) == score >= self.stop_score

\* lines 221-222
StopReached(n, score) ==
  n >= self.stop_n_inliers \/ score >= self.stop_score

\* lines 213-223: save the trial as the best one, then the stop condition
SaveBest(h, d, mask, score) ==
  LET best == << NInliers(mask), score, Some(mask), Some(InlierIdxs(mask)),
                 Some(InlierIdxs(mask)) >>
      h1 == [h EXCEPT !.accepted = @ + 1, !.stop_checks = @ + 1,
                      !.replaced = Some(<< best_n_inliers, best_score >>)]
  IN  IF StopReached(best[1], best[2])
      THEN TrialEnds("break", None, d, Some(mask), Some(score), best,
                     Ended(h1, "accept_break"))
      ELSE TrialEnds("loop", None, d, Some(mask), Some(score), best,
                     Ended(h1, "accept"))

\* lines 198-211: the inlier rows, their score, the tie-break
ScoreInliers(h, d, mask) ==
  IF \E i \in mask : i >= y_rows
  THEN \* line 201: y has no such row
       TrialEnds(Raise, Some("IndexError"), d, Some(mask), rsample_score,
                 BestState, Ended(h, "raised_201"))
  ELSE \/ \* line 204: the delegate's score raises
          TrialEnds(Raise, Some("delegate error"), d, Some(mask),
                    rsample_score, BestState, Ended(h, "raised_204"))
       \/ \E score \in Scores :
            LET h1 == Seen(h, NInliers(mask), Some(score))
            IN  IF SameButWorse(NInliers(mask), score)
                THEN TrialEnds(Continue, None, d, Some(mask), Some(score),
                               BestState, Ended(h1, "reject_score"))
                ELSE SaveBest(h1, d, mask, score)

\* the rows of predict(X) - y: equal row counts, or a one-row y broadcast
ResidualRows ==
  IF X_rows = y_rows \/ y_rows = 1 THEN Some(0..(X_rows - 1)) ELSE None

\* lines 188-191: the masks the residual vectors of the delegate's
\* prediction can give
InlierMasks ==
  {InlierMask(residuals) : residuals \in [ResidualRows[1] -> Residuals]}

\* lines 187-196: residuals, inlier mask, early reject
Classify(h, d) ==
  \/ \* line 188: the delegate's predict raises
     TrialEnds(Raise, Some("delegate error"), d, rsample_inlier_mask,
               rsample_score, BestState, Ended(h, "raised_188"))
  \/ IF ResidualRows = None
     THEN \* line 188: the operands do not broadcast
          TrialEnds(Raise, Some("ValueError: operands could not be broadcast"), d,
                    rsample_inlier_mask, rsample_score, BestState,
                    Ended(h, "raised_188"))
     ELSE \E mask \in InlierMasks :
            IF FewerInliers(NInliers(mask))
            THEN TrialEnds(Continue, None, d, Some(mask), rsample_score,
                           BestState,
                           Ended(Seen(h, NInliers(mask), None),
                                 "reject_count"))
            ELSE ScoreInliers(h, d, mask)

\* lines 179-185: fit the delegate to the sample, the model gate
FitSample(h) ==
  \/ \* line 180: the delegate's fit raises; what it leaves of the object
     \* is not known, the object is dropped with the call
     TrialEnds(Raise, Some("delegate error"), objs[base_estimator[1]],
               rsample_inlier_mask, rsample_score, BestState,
               Ended(h, "raised_180"))
  \/ LET d == OnSample(it)
     IN  IF self.is_model_valid # None
         THEN \E model_valid \in BOOLEAN :
                LET h1 == [h EXCEPT !.gate_calls = @ + 1]
                IN  IF SkipOnModel(model_valid)
                    THEN TrialEnds(Continue, None, d, rsample_inlier_mask,
                                   rsample_score, BestState,
                                   Ended(h1, "skip_model"))
                    ELSE Classify(h1, d)
         ELSE Classify(h, d)

\* line 171: the array a seeded generator returns is fixed by its seed and
\* the draws made before
Stream(g, n, size) == [j \in 1..size |-> (g.seed[1] + g.drawn + j) % n]

\* faulty variant of RandomIdxs: np.random.randint in place of
\* random_state.randint
GlobalRandomIdxs == [1..min_n_samples[1] -> 0..(n_samples - 1)]

\* line 171: the index arrays random_state.randint can return
RandomIdxs ==
  IF random_state[1].seed = None
  THEN [1..min_n_samples[1] -> 0..(n_samples - 1)]
  ELSE {Stream(random_state[1], n_samples, min_n_samples[1])}

\* line 173: y has a row for every index drawn
InRangeOfY(random_idxs) ==
  \A j \in DOMAIN random_idxs : random_idxs[j] < y_rows

\* lines 171-173: of an array drawn without a seed only InRangeOfY matters
\* to what follows; one drawn with a seed is kept for the log
Draws ==
  { [ idxs |-> IF self.random_state = None THEN None ELSE Some(random_idxs),
      in_range |-> InRangeOfY(random_idxs) ] : random_idxs \in RandomIdxs }

\* line 171: the generator after the draw
AfterDraw(g) == IF g.seed = None THEN g ELSE [g EXCEPT !.drawn = @ + 1]

\* what the gates and the delegate did in the last iteration
Outcome ==
  [ how |-> hist.last, raised |-> raised, mask |-> rsample_inlier_mask,
    score |-> rsample_score ]

\* the logged call is over, and up to here this call has drawn what it drew
Rerun == log.ended # None /\ ~hist.differs

\* lines 168-177: the next loop index, the random draw, the data gate.
\* The gates and the delegate are taken to be repeatable: in an iteration
\* that draws the array the same iteration of the logged call drew, with
\* all iterations before it alike, they do what they did then.
Trial ==
  /\ pc = "loop"
  /\ it < self.max_trials
  /\ \E draw \in Draws :
       LET same == /\ Rerun
                   /\ it < Len(log.trials)
                   /\ log.trials[it + 1].draw = draw.idxs
           h0 == [hist EXCEPT !.randint = @ + 1,
                              !.draw = draw.idxs,
                              !.differs = log.ended # None /\ ~same]
       IN  /\ IF ~draw.in_range
              THEN TrialEnds(Raise, Some("IndexError"),
                             objs[base_estimator[1]], rsample_inlier_mask,
                             rsample_score, BestState,
                             Ended(h0, "raised_173"))
              ELSE IF self.is_data_valid # None
              THEN \E data_valid \in BOOLEAN :
                     LET h1 == [h0 EXCEPT
                                  !.gate_calls = @ + 1,
                                  !.data_valid_true = @ \/ data_valid]
                     IN  IF SkipOnData(data_valid)
                         THEN TrialEnds(Continue, None,
                                        objs[base_estimator[1]],
                                        rsample_inlier_mask, rsample_score,
                                        BestState, Ended(h1, "skip_data"))
                         ELSE FitSample(h1)
              ELSE FitSample(h0)
           /\ IF same
              THEN /\ Outcome' = log.trials[it + 1].outcome
                   /\ log' = log
              ELSE IF log.data # None /\ log.ended = None
              THEN log' = [log EXCEPT !.trials =
                             Append(@, [draw |-> draw.idxs,
                                        outcome |-> Outcome'])]
              ELSE log' = log
  /\ random_state' = Some(AfterDraw(random_state[1]))
  /\ UNCHANGED << self, fitted, X_rows, y_rows, y_kind, base_estimator,
                  min_n_samples, session >>

\* ------------------------------------------------------ fit: after loop
\* the for statement is over: range exhausted, or break
LoopOver == pc = "break" \/ (pc = "loop" /\ it >= self.max_trials)

\* faulty variant of NoConsensus: the count tested, not the mask
NoConsensusByCount == best_n_inliers = 0

\* line 226
NoConsensus == best_inlier_mask = None

\* faulty variant of NTrialsExecuted: the + 1 forgotten
LastLoopIndex == n_trials[1]

\* line 233
NTrialsExecuted == n_trials[1] + 1

\* faulty variant of FinalFit: the delegate left as the last trial fitted it
NoFinalFit == objs[base_estimator[1]]

\* line 230
FinalFit == OnRows(best_inlier_X[1])

\* faulty variant of FitEnd: line 232 moved before the final fit of line
\* 230
AssignBeforeFinalFit ==
  /\ LoopOver
  /\ pc' = "done"
  /\ IF NoConsensus
     THEN /\ raised' =
               Some("ValueError: no valid consensus set")
          /\ UNCHANGED << objs, fitted >>
     ELSE /\ estimator_' = base_estimator
          /\ \/ /\ raised' = Some("delegate error")
                /\ UNCHANGED << objs, n_trials_, inlier_mask_ >>
             \/ /\ raised' = None
                /\ objs' = [objs EXCEPT ![base_estimator[1]] = FinalFit]
                /\ n_trials_' = Some(NTrialsExecuted)
                /\ inlier_mask_' = best_inlier_mask
  /\ Rerun => raised' = log.ended[1].raised
  /\ UNCHANGED << self, X_rows, y_rows, y_kind, base_estimator,
                  min_n_samples, random_state, it,
                  n_trials, BestState, rsample_inlier_mask, rsample_score,
                  hist, session, log >>

\* lines 225-234
FitEnd ==
  /\ LoopOver
  /\ pc' = "done"
  /\ IF NoConsensus
     THEN /\ raised' =
               Some("ValueError: no valid consensus set")
          /\ UNCHANGED << objs, fitted >>
     ELSE \/ \* line 230: the delegate's fit raises
             /\ raised' = Some("delegate error")
             /\ UNCHANGED << objs, fitted >>
          \/ /\ raised' = None
             /\ objs' = [objs EXCEPT ![base_estimator[1]] = FinalFit]
             /\ estimator_' = base_estimator
             /\ n_trials_' = Some(NTrialsExecuted)
             /\ inlier_mask_' = best_inlier_mask
  /\ Rerun => raised' = log.ended[1].raised
  /\ UNCHANGED << self, X_rows, y_rows, y_kind, base_estimator,
                  min_n_samples, random_state, it,
                  n_trials, BestState, rsample_inlier_mask, rsample_score,
                  hist, session, log >>

Next == FitBegin \/ Trial \/ FitEnd

Spec == Init /\ [][Next]_vars

\* ------------------------------------------------- a sequence of calls
\* what a fit call leaves to its caller: the exception or the attributes
Result ==
  [ raised |-> raised, n_trials_ |-> n_trials_, inlier_mask_ |-> inlier_mask_,
    fitted_on |-> IF estimator_ = None THEN None ELSE objs[estimator_[1]] ]

\* an object nothing refers to any more
Freed == Some([data |-> "freed", of |-> 0])

\* the objects still referred to when fit has returned: the configured
\* prototype and the object estimator_ names
Referred ==
  (IF self.base_estimator = None THEN {} ELSE {1})
    \cup (IF estimator_ = None THEN {} ELSE {estimator_[1]})

\* fit returns or raises: its frame is gone, and with it the delegate of a
\* call that failed and the object estimator_ named before
FitReturn ==
  /\ pc = "done"
  /\ pc' = "idle"
  /\ session' = [ calls |-> session.calls + 1,
                  succeeded |-> session.succeeded \/ raised = None,
                  model |-> IF raised # None THEN session.model
                            ELSE Some([ by |-> base_estimator,
                                        fitted_on |-> FinalFit ]),
                  answer |-> None ]
  /\ log' = IF log.data # None /\ log.ended = None
            THEN [log EXCEPT !.ended = Some(Result)]
            ELSE log
  /\ objs' = [id \in DOMAIN objs |->
               IF id \in Referred THEN objs[id] ELSE Freed]
  /\ raised' = None
  /\ X_rows' = None /\ y_rows' = None /\ y_kind' = None
  /\ base_estimator' = None /\ min_n_samples' = None
  /\ random_state' = None
  /\ it' = 0 /\ n_trials' = None
  /\ best_n_inliers' = None /\ best_score' = None
  /\ best_inlier_mask' = None /\ best_inlier_X' = None
  /\ best_inlier_y' = None
  /\ rsample_inlier_mask' = None /\ rsample_score' = None
  /\ hist' = NoHist
  /\ UNCHANGED << self, fitted >>

\* faulty variant of Wrapped: the configured prototype asked
WrappedPrototype == self.base_estimator

\* lines 250 and 270: self.estimator_, the object predict and score ask
Wrapped == estimator_

\* lines 250 and 270: the attribute is not there before a fit call has
\* assigned it; the object it names answers from what it was fitted on
Ask(call) ==
  /\ pc = "idle"
  /\ IF Wrapped = None
     THEN session' =
            [session EXCEPT !.answer =
               Some([ call |-> call, raised |-> Some("AttributeError"),
                      by |-> None, fitted_on |-> None ])]
     ELSE session' =
            [session EXCEPT !.answer =
               Some([ call |-> call, raised |-> None, by |-> Wrapped,
                      fitted_on |-> objs[Wrapped[1]] ])]
  /\ UNCHANGED << self, fitted, objs, pc, raised, X_rows, y_rows, y_kind,
                  base_estimator, min_n_samples, random_state, it, n_trials,
                  BestState, rsample_inlier_mask, rsample_score, hist, log >>

\* lines 236-250
Predict == Ask("predict")

\* lines 252-270
Score == Ask("score")

NextCalls ==
  FitBegin \/ Trial \/ FitEnd \/ FitReturn \/ Predict \/ Score

SpecCalls == InitCalls /\ [][NextCalls]_vars

\* ================================================================ claims
ConvergenceError == Some("ValueError: no valid consensus set")

\* lines 138-151 raised nothing: the call got to the loop
LoopEntered == min_n_samples # None

\* X and y have the same number of rows
Aligned == X_rows = y_rows

\* an error left fit from inside an iteration
TrialRaised ==
  hist.last \in {"raised_173", "raised_180", "raised_188", "raised_201",
                 "raised_204"}

\* this step is a loop iteration
TrialStep == hist'.randint = hist.randint + 1

\* this step is a loop iteration that passed both gates and got to the
\* comparison with the best
Compared ==
  /\ TrialStep
  /\ hist'.last \in {"reject_count", "reject_score", "accept", "accept_break"}

\* this step saved its trial as the best
Saved ==
  /\ hist'.accepted = hist.accepted + 1
  /\ best_n_inliers' = Cardinality(rsample_inlier_mask'[1])
  /\ best_score' = rsample_score'[1]
  /\ best_inlier_mask' = rsample_inlier_mask'
  /\ best_inlier_X' = Some(InlierIdxs(rsample_inlier_mask'[1]))
  /\ best_inlier_y' = Some(InlierIdxs(rsample_inlier_mask'[1]))

NotSaved == hist'.accepted = hist.accepted /\ UNCHANGED BestState

\* C1 as claimed (for X and y of equal row counts): a fit call that got to
\* the loop ends with the convergence error iff every trial was skipped or
\* rejected, and whenever a trial was accepted it ends without an error
\* and with a fitted result.
C1_AsClaimed ==
  (pc = "done" /\ LoopEntered /\ Aligned) =>
     /\ raised = ConvergenceError <=> (hist.accepted = 0 /\ ~TrialRaised)
     /\ hist.accepted >= 1 => (raised = None /\ estimator_ # None)

\* C1, amended: a fit call that got to the loop ends with the convergence
\* error iff no trial was accepted and no trial raised; once a trial was
\* accepted the convergence error is never raised, and the call ends with
\* the three fitted attributes assigned unless a later error (a delegate
\* call, or an index into y) propagates, and then none is assigned.
C1_ConvergenceError ==
  /\ hist.accepted >= 1 => raised # ConvergenceError
  /\ (pc = "done" /\ LoopEntered) =>
       /\ raised = ConvergenceError <=> (hist.accepted = 0 /\ ~TrialRaised)
       /\ hist.accepted >= 1 =>
            \/ /\ raised = None
               /\ estimator_ # None /\ n_trials_ # None /\ inlier_mask_ # None
            \/ /\ raised \in {Some("delegate error"), Some("IndexError")}
               /\ estimator_ = None /\ n_trials_ = None /\ inlier_mask_ = None

\* the convergence error after two trials, the last rejected by the
\* comparison
C1_Witness ==
  /\ pc = "done" /\ raised = ConvergenceError
  /\ it = 2 /\ hist.last = "reject_score" /\ hist.accepted = 0

C3_AsClaimed ==
  [][ (Compared /\ best_inlier_mask = None) => Saved ]_vars

\* C3, amended: while no best is set, a trial that passes the gates is
\* never rejected on its count; with one inlier or more it is accepted
\* whatever its score; with no inlier it is accepted only if its score is
\* not below +infinity, so it is rejected for every finite score.
C3_UnsetBest ==
  [][ (Compared /\ best_inlier_mask = None) =>
        LET n == Cardinality(rsample_inlier_mask'[1])
        IN  /\ hist'.last # "reject_count"
            /\ n >= 1 => Saved
            /\ n = 0 => IF rsample_score'[1] < Inf THEN NotSaved ELSE Saved
    ]_vars

\* no best yet, and a trial with no inlier and score 0 was rejected
C3_Witness ==
  /\ best_inlier_mask = None
  /\ hist.last = "reject_score"
  /\ rsample_inlier_mask = Some({})
  /\ rsample_score = Some(0)

\* C4: from the initialisation of the best to the end of the call the best
\* inlier count never decreases, and the best changes only in an iteration
\* that saves its trial.
C4_BestCountMonotone ==
  [][ (pc = "loop" \/ pc = "break") =>
        ( /\ best_n_inliers' >= best_n_inliers
          /\ (BestState' # BestState) => Saved )
    ]_vars

\* a best with one inlier was replaced by one with two
C4_Witness ==
  /\ hist.replaced # None
  /\ hist.replaced[1][1] = 1
  /\ best_n_inliers = 2

\* C5: an iteration in which is_data_valid or is_model_valid answers false
\* changes no field of the best, evaluates no stop condition, and uses up
\* one loop index: the loop goes on with the next.
C5_GateSkipFrame ==
  [][ (TrialStep /\ hist'.last \in {"skip_data", "skip_model"}) =>
        ( /\ UNCHANGED BestState
          /\ hist'.accepted = hist.accepted
          /\ hist'.stop_checks = hist.stop_checks
          /\ n_trials' = Some(it) /\ it' = it + 1
          /\ pc' = "loop" /\ raised' = None )
    ]_vars

\* a best is set and the second iteration was skipped by the model gate
C5_Witness ==
  /\ hist.last = "skip_model"
  /\ hist.accepted = 1
  /\ it = 2

\* C6 as claimed: while is_data_valid has answered false on every call the
\* delegate is never fitted and no trial is accepted, and the call ends
\* after exactly max_trials iterations with the convergence error.
\* Violated: fit does not compare the row counts of X and y, and with a
\* shorter y line 173 raises IndexError before the gate is called.
C6_AsClaimed ==
  (self.is_data_valid # None /\ ~hist.data_valid_true /\ LoopEntered) =>
     /\ objs[base_estimator[1]] = None
     /\ hist.accepted = 0
     /\ pc = "done" =>
          /\ it = self.max_trials /\ hist.randint = self.max_trials
          /\ raised = ConvergenceError

\* C6 on inputs with equal row counts: each iteration has called the gate,
\* the delegate is never fitted, no trial is accepted, and the call ends
\* after exactly max_trials iterations with the convergence error.
C6_DataGateAlwaysFalse ==
  (self.is_data_valid # None /\ ~hist.data_valid_true /\ LoopEntered
     /\ Aligned) =>
     /\ objs[base_estimator[1]] = None
     /\ hist.accepted = 0
     /\ hist.gate_calls = it
     /\ pc = "done" =>
          /\ it = self.max_trials /\ hist.randint = self.max_trials
          /\ raised = ConvergenceError

\* two iterations, both skipped by the data gate, then the error
C6_Witness ==
  /\ pc = "done" /\ Aligned
  /\ self.is_data_valid # None /\ ~hist.data_valid_true
  /\ hist.gate_calls = 2
  /\ raised = ConvergenceError

\* C7: with stop_n_inliers = 0 the iteration that accepts a trial ends the
\* loop: at most one trial is accepted and none is started after it.
C7_StopAtFirstAccepted ==
  (self.stop_n_inliers = 0 /\ hist.accepted >= 1) =>
     /\ hist.accepted = 1
     /\ hist.last = "accept_break"
     /\ pc \in {"break", "done"}

\* stopped after the first of two trials, on a score below stop_score
C7_Witness ==
  /\ self.stop_n_inliers = 0 /\ self.stop_score = Inf
  /\ self.max_trials = 2
  /\ pc = "done" /\ raised = None
  /\ it = 1 /\ best_score = 0

\* C8: after a successful fit n_trials_ is the number of iterations
\* executed, between 1 and max_trials, and max_trials unless the loop ended
\* by break.
C8_TrialsExecuted ==
  (pc = "done" /\ raised = None) =>
     /\ n_trials_ = Some(it) /\ hist.randint = it
     /\ 1 <= n_trials_[1] /\ n_trials_[1] <= self.max_trials
     /\ hist.last # "accept_break" => n_trials_[1] = self.max_trials

\* a successful fit of two iterations, the second skipped or rejected
C8_Witness ==
  /\ pc = "done" /\ raised = None
  /\ n_trials_ = Some(2)
  /\ hist.last \in {"skip_data", "skip_model", "reject_count",
                    "reject_score"}

\* C9: after a successful fit estimator_ is the delegate, last fitted on
\* the inlier rows of the final best, and inlier_mask_ is the mask of that
\* best.
C9_FinalRefit ==
  (pc = "done" /\ raised = None) =>
     /\ estimator_ = base_estimator
     /\ inlier_mask_ # None /\ inlier_mask_ = best_inlier_mask
     /\ best_inlier_X = Some(InlierIdxs(best_inlier_mask[1]))
     /\ best_inlier_y = Some(InlierIdxs(best_inlier_mask[1]))
     /\ objs[estimator_[1]] = OnRows(InlierIdxs(inlier_mask_[1]))

\* a successful fit whose last iteration fitted the delegate to its sample
\* and was not accepted, with another mask than the best
C9_Witness ==
  /\ pc = "done" /\ raised = None
  /\ hist.last \in {"skip_model", "reject_count", "reject_score"}
  /\ rsample_inlier_mask # best_inlier_mask

\* C10 as claimed: when X and y differ in their row counts no random
\* subset is drawn, no gate is called, the delegate is never fitted, and
\* the call ends with a configuration error.
C10_AsClaimed ==
  (pc # "idle" /\ ~Aligned) =>
     /\ hist.randint = 0 /\ hist.gate_calls = 0
     /\ \A id \in DOMAIN objs : objs[id] = None
     /\ pc = "done"
     /\ raised \in {Some("ValueError: base_estimator not specified"),
                    Some("ValueError: min_n_samples must be positive"),
                    Some("ValueError: rows of X and y differ")}

\* no random draw, no gate call, no delegate fit so far
NoTrialWork ==
  /\ hist.randint = 0 /\ hist.gate_calls = 0
  /\ \A id \in DOMAIN objs : objs[id] = None

C13_DelegateErrorAborts ==
  [][ /\ (TrialStep /\ hist'.last \in {"raised_180", "raised_204"}) =>
           ( /\ pc' = "done"
             /\ raised' = Some("delegate error")
             /\ hist'.accepted = hist.accepted
             /\ UNCHANGED BestState
             /\ UNCHANGED fitted )
      /\ hist.last \in {"raised_180", "raised_204"} => UNCHANGED vars
    ]_vars

\* the delegate's score raised in the second trial, after the first was
\* accepted
C13_Witness ==
  /\ hist.last = "raised_204" /\ hist.accepted = 1 /\ it = 2
  /\ pc = "done" /\ raised = Some("delegate error")
  /\ estimator_ = None

\* this step is a loop iteration that got to line 191 and classified the rows
Classified ==
  /\ TrialStep
  /\ hist'.last \in {"reject_count", "reject_score", "accept", "accept_break",
                     "raised_201", "raised_204"}

\* C15: with residual_threshold = +infinity every iteration that classifies
\* the rows finds all N rows inliers and none is rejected on its count; the
\* first that gets to the comparison is accepted whatever its score; every
\* later one has the inlier count N of the best and is rejected exactly
\* when its score is below the best score.
C15_InfiniteThreshold ==
  [][ (self.residual_threshold = Inf /\ Classified) =>
        ( /\ rsample_inlier_mask' = Some(0..(X_rows - 1))
          /\ hist'.last # "reject_count"
          /\ (Compared /\ hist.accepted = 0) => Saved
          /\ (Compared /\ hist.accepted >= 1) =>
               /\ best_n_inliers = X_rows
               /\ best_n_inliers' = X_rows
               /\ IF rsample_score'[1] < best_score
                  THEN NotSaved ELSE Saved )
    ]_vars

\* infinite threshold: the first trial accepted with all rows, the second
\* rejected on its score
C15_Witness ==
  /\ self.residual_threshold = Inf
  /\ hist.accepted = 1 /\ it = 2 /\ hist.last = "reject_score"
  /\ best_n_inliers = X_rows

\* C16 as claimed: a trial with the inlier count of the best model is saved
\* as the new best only if its score is strictly higher than the best
\* score.  Violated: lines 209-210 reject only a lower score, so a trial
\* with the same count and the same score replaces the best.
C16_AsClaimed ==
  [][ (Compared /\ hist.accepted >= 1
         /\ Cardinality(rsample_inlier_mask'[1]) = best_n_inliers) =>
        IF rsample_score'[1] > best_score THEN Saved ELSE NotSaved
    ]_vars

\* the best satisfies a stop condition
BestStops ==
  best_n_inliers >= self.stop_n_inliers \/ best_score >= self.stop_score

\* C18: an iteration evaluates the stop condition exactly when it has just
\* replaced the best, and ends the loop exactly when the new best satisfies
\* a stop condition; an iteration that was skipped or rejected goes on with
\* the loop, and the initial best score of +infinity is never tested.  So
\* while the loop goes on no accepted best satisfies a stop condition, and
\* a successful fit with n_trials_ < max_trials has a best that does.
C18_StopAfterReplacement ==
  [][ /\ TrialStep =>
           ( /\ hist'.stop_checks - hist.stop_checks =
                  hist'.accepted - hist.accepted
             /\ pc' = "break" <=>
                  (hist'.accepted = hist.accepted + 1 /\ BestStops')
             /\ hist'.last \in {"skip_data", "skip_model", "reject_count",
                                "reject_score"} => pc' = "loop" )
      /\ (pc' = "loop" /\ hist'.accepted = 0) =>
           (hist'.stop_checks = 0 /\ best_score' = Inf)
      /\ (pc' = "loop" /\ hist'.accepted >= 1) => ~BestStops'
      /\ (pc' = "done" /\ raised' = None
            /\ n_trials_'[1] < self.max_trials) => BestStops'
    ]_vars

\* a successful fit stopped after the first of two trials by its score,
\* with fewer inliers than stop_n_inliers
C18_Witness ==
  /\ pc = "done" /\ raised = None
  /\ self.max_trials = 2 /\ n_trials_ = Some(1)
  /\ best_n_inliers < self.stop_n_inliers
  /\ best_score >= self.stop_score

\* C19: once a trial has been accepted, and so at the end of a successful
\* fit, the inlier count of the best is the largest inlier count of all
\* iterations that passed the gates, and the score of the best is the
\* largest score among the iterations with that count.
C19_LexicographicMaximum ==
  /\ hist.accepted >= 1 =>
       hist.top = Some([n |-> best_n_inliers, score |-> Some(best_score)])
  /\ (pc = "done" /\ raised = None) => hist.accepted >= 1

\* a successful fit of two accepted trials, the second with the inlier
\* count of the first and a higher score
C19_Witness ==
  /\ pc = "done" /\ raised = None
  /\ hist.accepted = 2
  /\ hist.replaced[1][1] = best_n_inliers
  /\ hist.replaced[1][2] < best_score

\* C12: a predict or score call made while no fit call on the object has
\* returned without an error raises, and gives no value of any estimator.
C12_AskBeforeFit ==
  (session.answer # None /\ ~session.succeeded) =>
     /\ session.answer[1].raised = Some("AttributeError")
     /\ session.answer[1].by = None

\* score asked after two fit calls that both failed
C12_Witness ==
  /\ session.calls = 2 /\ ~session.succeeded
  /\ session.answer # None
  /\ session.answer[1].call = "score"
  /\ session.answer[1].raised = Some("AttributeError")

\* C17: no step of a fit call changes what the configured prototype was
\* fitted on, which is nothing; the delegate a fit call resolves is a new
\* object, neither the prototype nor the object estimator_ names; and no
\* step of a later fit call changes what the object estimator_ names was
\* fitted on: it is left as it is until, replaced by the delegate of a
\* later successful call, it is dropped.
C17_OwnDelegate ==
  [][ /\ self.base_estimator # None =>
           (objs[1] = None /\ objs'[1] = None)
      /\ (base_estimator' # None /\ base_estimator' # base_estimator) =>
           ( /\ base_estimator' # estimator_
             /\ base_estimator'[1] = Len(objs) + 1
             /\ objs'[base_estimator'[1]] = None )
      /\ estimator_ # None =>
           \/ objs'[estimator_[1]] = objs[estimator_[1]]
           \/ /\ pc = "done" /\ pc' = "idle"
              /\ estimator_' # estimator_
              /\ objs'[estimator_[1]] = Freed
    ]_vars

\* a second fit call has fitted its delegate in a trial while estimator_
\* names the delegate of the first, and a prototype is configured
C17_Witness ==
  /\ self.base_estimator # None
  /\ session.calls = 1 /\ estimator_ # None
  /\ pc = "loop" /\ it >= 1
  /\ base_estimator # estimator_
  /\ objs[base_estimator[1]] # None
  /\ objs[estimator_[1]] # None

\* C14: a fit call of an object configured with an integer seed draws once
\* in every iteration it begins, gate-skipped ones included, and a later
\* fit call of the same object on the same data draws in every iteration
\* the array the first call drew there, runs no iteration the first call
\* did not run, and ends as the first call ended: the same exception, or the
\* same inlier_mask_, n_trials_ and final fit of the delegate.
C14_SeededRunsAgree ==
  /\ (random_state # None /\ random_state[1].seed # None) =>
       ( /\ random_state[1].drawn = it
         /\ hist.randint = it )
  /\ (log.ended # None /\ pc # "idle") =>
       ( /\ ~hist.differs
         /\ it <= Len(log.trials)
         /\ it >= 1 => hist.draw = log.trials[it].draw
         /\ pc = "done" =>
              ( /\ it = Len(log.trials)
                /\ Result = log.ended[1] ) )

\* the second of two seeded fit calls on the same data has ended without an
\* error after two iterations, the first of them skipped by the data gate
C14_Witness ==
  /\ log.ended # None
  /\ session.calls = 1 /\ pc = "done" /\ raised = None
  /\ it = 2 /\ random_state[1].drawn = 2
  /\ log.trials[1].outcome.how = "skip_data"
  /\ hist.draw # log.trials[1].draw
  /\ Result = log.ended[1]

\* C20: the fitted attributes change only in the step that ends a fit call
\* without an error, which assigns all three; a fit call that ends with an
\* error leaves them, and the object estimator_ names, as they were before
\* the call; so predict and score, once a fit call has succeeded, answer
\* from the delegate of the last fit call that succeeded, as its final fit
\* left it, whatever fit calls have failed since.
C20_FailedFitFrame ==
  [][ /\ fitted' # fitted =>
           ( /\ LoopOver /\ pc' = "done" /\ raised' = None
             /\ estimator_' = base_estimator
             /\ n_trials_' # None /\ inlier_mask_' # None )
      /\ (pc' = "done" /\ raised' # None) =>
           ( /\ UNCHANGED fitted
             /\ estimator_ # None =>
                  objs'[estimator_[1]] = objs[estimator_[1]] )
      /\ (session'.answer # None /\ session.succeeded) =>
           ( /\ session'.answer[1].raised = None
             /\ session'.answer[1].by = session.model[1].by
             /\ session'.answer[1].fitted_on = session.model[1].fitted_on )
    ]_vars

\* predict asked after a fit call that succeeded and a later one that
\* failed, whose delegate is dropped
C20_Witness ==
  /\ session.calls = 2 /\ session.succeeded
  /\ estimator_ # None
  /\ estimator_[1] < Len(objs) /\ objs[Len(objs)] = Freed
  /\ session.answer # None
  /\ session.answer[1].call = "predict"
  /\ session.answer[1].by = estimator_

====
